---- MODULE Spec2Model ----
(***************************************************************************)
(* Model of scripts/update_do_spec.py: one run of main().                  *)
(*                                                                         *)
(* The run parses its arguments, GETs the app document, transforms the     *)
(* env list of every service named 'synoptic-web', PUTs the specification  *)
(* back and exits.  Python strings whose content is inspected (values,     *)
(* credentials, response bodies) are tuples of one-character strings, so   *)
(* that `in`, lower() and truthiness are computed; keys and names, which   *)
(* are only compared for equality, are TLA+ strings.  Python dicts are     *)
(* records whose DOMAIN is the set of keys present; lists are sequences.   *)
(***************************************************************************)
EXTENDS Integers, Sequences, FiniteSets, TLC

VARIABLES
    pc,            \* position of main(): parse_args, fetch, transform, push, done
    argv,          \* command-line flags given (dict flag -> text)
    environ,       \* os.environ restricted to the variables main() reads
    args,          \* argparse namespace: token, app_id
    result,        \* CompletedProcess of the GET (returncode, stdout)
    spec,          \* data['app']['spec'], mutated in place by the transformer
    apply_result,  \* CompletedProcess of the PUT (returncode, stdout)
    put_data,      \* the document handed to the PUT with -d
    calls,         \* the curl invocations issued so far, in order
    exit_code,     \* exit status of the process, meaningful when pc = "done"
    exception,     \* name of the uncaught exception that ended the run, or "none"
    banner         \* TRUE once the success banner has been printed

vars == <<pc, argv, environ, args, result, spec, apply_result, put_data,
          calls, exit_code, exception, banner>>

(***************************************************************************)
(* Bounds of the model.                                                    *)
(***************************************************************************)
\* services plus env entries in the fetched specification
MaxDocSize == 3

(***************************************************************************)
(* Python values.                                                          *)
(***************************************************************************)
None == <<"None">>

Truthy(v) == v # None /\ v # <<>>

\* d.get(k, default)
Get(d, k, default) == IF k \in DOMAIN d THEN d[k] ELSE default

\* sub in s, for strings
Contains(sub, s) ==
    \E i \in 1..(Len(s) - Len(sub) + 1) : SubSeq(s, i, i + Len(sub) - 1) = sub

UpperCase == <<"A", "B", "C", "D", "E", "F", "G", "H", "I", "J", "K", "L", "M",
               "N", "O", "P", "Q", "R", "S", "T", "U", "V", "W", "X", "Y", "Z">>
LowerCase == <<"a", "b", "c", "d", "e", "f", "g", "h", "i", "j", "k", "l", "m",
               "n", "o", "p", "q", "r", "s", "t", "u", "v", "w", "x", "y", "z">>

LowerChar(c) ==
    IF \E i \in DOMAIN UpperCase : UpperCase[i] = c
    THEN LowerCase[CHOOSE i \in DOMAIN UpperCase : UpperCase[i] = c]
    ELSE c

\* s.lower()
Lower(s) == [i \in DOMAIN s |-> LowerChar(s[i])]

(***************************************************************************)
(* Literals of the script.                                                 *)
(***************************************************************************)
TargetName == "synoptic-web"

JwtFallback ==
    <<"s", "y", "n", "o", "p", "t", "i", "c", "-", "s", "e", "c", "u", "r", "e",
      "-", "j", "w", "t", "-", "s", "e", "c", "r", "e", "t", "-", "2", "0", "2",
      "5", "-", "p", "r", "o", "d", "u", "c", "t", "i", "o", "n", "-", "k", "e",
      "y">>
AppUrl ==
    <<"h", "t", "t", "p", "s", ":", "/", "/", "g", "e", "t", "s", "y", "n", "o",
      "p", "t", "i", "c", ".", "c", "o", "m">>
TrueText == <<"t", "r", "u", "e">>
TemplateMark == <<"$", "{">>
ErrorWord == <<"e", "r", "r", "o", "r">>

(***************************************************************************)
(* The transformer, lines 49-80.                                           *)
(***************************************************************************)
\* existing_keys = {e['key'] for e in envs}
ExistingKeys(envs) == {envs[i].key : i \in DOMAIN envs}

\* the five candidates, with the values resolved from the environment
NewEnvs(env) ==
    << [key |-> "JWT_SECRET", value |-> Get(env, "JWT_SECRET", JwtFallback),
        scope |-> "RUN_TIME", type |-> "SECRET"],
       [key |-> "NEXT_PUBLIC_APP_URL", value |-> AppUrl,
        scope |-> "RUN_AND_BUILD_TIME"],
       [key |-> "NEXT_PUBLIC_AI_AGENT_LINGUIST_ID",
        value |-> Get(env, "AI_AGENT_LINGUIST_ID", <<>>),
        scope |-> "RUN_AND_BUILD_TIME"],
       [key |-> "NEXT_PUBLIC_AI_AGENT_PHILOLOGIST_ID",
        value |-> Get(env, "AI_AGENT_PHILOLOGIST_ID", <<>>),
        scope |-> "RUN_AND_BUILD_TIME"],
       [key |-> "NEXT_PUBLIC_ENABLE_AI_FEATURES", value |-> TrueText,
        scope |-> "RUN_AND_BUILD_TIME"] >>

\* variant: the value of the candidate is not looked at
ShouldAddAnyValue(new_env, existing_keys) == new_env.key \notin existing_keys

\* the condition under which a candidate is appended
ShouldAdd(new_env, existing_keys) ==
    Truthy(new_env.value) /\ new_env.key \notin existing_keys

\* variant: a candidate whose key exists overwrites the entries with that key
RECURSIVE AppendLoopOverwrite(_, _, _, _)
AppendLoopOverwrite(envs, new_envs, existing_keys, i) ==
    IF i > Len(new_envs) THEN envs
    ELSE AppendLoopOverwrite(
             IF ShouldAdd(new_envs[i], existing_keys)
             THEN Append(envs, new_envs[i])
             ELSE IF Truthy(new_envs[i].value)
                  THEN [j \in DOMAIN envs |->
                           IF envs[j].key = new_envs[i].key
                           THEN new_envs[i] ELSE envs[j]]
                  ELSE envs,
             new_envs, existing_keys, i + 1)

\* for new_env in new_envs: ... envs.append(new_env), from candidate i on
RECURSIVE AppendLoop(_, _, _, _)
AppendLoop(envs, new_envs, existing_keys, i) ==
    IF i > Len(new_envs) THEN envs
    ELSE AppendLoop(IF ShouldAdd(new_envs[i], existing_keys)
                    THEN Append(envs, new_envs[i]) ELSE envs,
                    new_envs, existing_keys, i + 1)

\* the entry the dedup loop removes as a hardcoded DATABASE_URL
IsHardcodedDatabaseUrl(e) ==
    e.key = "DATABASE_URL" /\ ~Contains(TemplateMark, Get(e, "value", <<>>))

\* variant: seen is never filled
RECURSIVE DedupeLoopNoSeen(_, _, _, _)
DedupeLoopNoSeen(envs, deduped, seen, i) ==
    IF i > Len(envs) THEN deduped
    ELSE IF IsHardcodedDatabaseUrl(envs[i])
         THEN DedupeLoopNoSeen(envs, deduped, seen, i + 1)
         ELSE DedupeLoopNoSeen(envs, Append(deduped, envs[i]), seen, i + 1)

\* variant: the key is marked as seen before the hardcoded check
RECURSIVE DedupeLoopSeenFirst(_, _, _, _)
DedupeLoopSeenFirst(envs, deduped, seen, i) ==
    IF i > Len(envs) THEN deduped
    ELSE IF envs[i].key \in seen \/ IsHardcodedDatabaseUrl(envs[i])
         THEN DedupeLoopSeenFirst(envs, deduped, seen \cup {envs[i].key}, i + 1)
         ELSE DedupeLoopSeenFirst(envs, Append(deduped, envs[i]),
                                  seen \cup {envs[i].key}, i + 1)

\* variant: a repeated key replaces the entry kept before (last occurrence wins)
RECURSIVE DedupeLoopKeepLast(_, _, _, _)
DedupeLoopKeepLast(envs, deduped, seen, i) ==
    IF i > Len(envs) THEN deduped
    ELSE IF IsHardcodedDatabaseUrl(envs[i])
         THEN DedupeLoopKeepLast(envs, deduped, seen, i + 1)
         ELSE IF envs[i].key \notin seen
              THEN DedupeLoopKeepLast(envs, Append(deduped, envs[i]),
                                      seen \cup {envs[i].key}, i + 1)
              ELSE DedupeLoopKeepLast(
                       envs,
                       [j \in DOMAIN deduped |->
                           IF deduped[j].key = envs[i].key THEN envs[i]
                           ELSE deduped[j]],
                       seen, i + 1)

\* variant: removing while iterating, the entry after a removed one is not examined
RECURSIVE DedupeLoopSkipNext(_, _, _, _)
DedupeLoopSkipNext(envs, deduped, seen, i) ==
    IF i > Len(envs) THEN deduped
    ELSE IF IsHardcodedDatabaseUrl(envs[i])
         THEN IF i + 1 > Len(envs) THEN deduped
              ELSE DedupeLoopSkipNext(envs, Append(deduped, envs[i + 1]),
                                      seen \cup {envs[i + 1].key}, i + 2)
         ELSE IF envs[i].key \notin seen
              THEN DedupeLoopSkipNext(envs, Append(deduped, envs[i]),
                                      seen \cup {envs[i].key}, i + 1)
              ELSE DedupeLoopSkipNext(envs, deduped, seen, i + 1)

\* for e in envs: ..., from entry i on, with deduped and seen so far
RECURSIVE DedupeLoop(_, _, _, _)
DedupeLoop(envs, deduped, seen, i) ==
    IF i > Len(envs) THEN deduped
    ELSE IF IsHardcodedDatabaseUrl(envs[i])
         THEN DedupeLoop(envs, deduped, seen, i + 1)
         ELSE IF envs[i].key \notin seen
              THEN DedupeLoop(envs, Append(deduped, envs[i]),
                              seen \cup {envs[i].key}, i + 1)
              ELSE DedupeLoop(envs, deduped, seen, i + 1)

Dedupe(envs) == DedupeLoop(envs, <<>>, {}, 1)

\* the env list the transformer computes from a service's env list
TransformEnvs(envs, env) ==
    Dedupe(AppendLoop(envs, NewEnvs(env), ExistingKeys(envs), 1))

\* the body of `if service.get('name') == 'synoptic-web':`
TransformService(service, env) ==
    LET deduped == TransformEnvs(Get(service, "envs", <<>>), env)
    IN  [f \in DOMAIN service \cup {"envs"} |->
            IF f = "envs" THEN deduped ELSE service[f]]

\* variant: the name of the service is not checked
IsTargetAny(service) == TRUE

\* service.get('name') == 'synoptic-web'
IsTarget(service) == "name" \in DOMAIN service /\ service.name = TargetName

\* for service in spec.get('services', []): ...
TransformSpec(s, env) ==
    IF "services" \notin DOMAIN s THEN s
    ELSE [s EXCEPT !.services =
             [i \in DOMAIN @ |->
                 IF IsTarget(@[i]) THEN TransformService(@[i], env) ELSE @[i]]]

(***************************************************************************)
(* Inputs of a run: flags, environment, and what the two calls return.     *)
(***************************************************************************)
Tok == <<"t", "o", "k">>
AppId == <<"a", "p", "p">>
OldSecret == <<"o", "l", "d", "-", "s", "e", "c", "r", "e", "t">>
EnvSecret == <<"e", "n", "v", "-", "s", "e", "c", "r", "e", "t">>
Agent1 == <<"a", "g", "e", "n", "t", "-", "1">>
Agent2 == <<"a", "g", "e", "n", "t", "-", "2">>
Literal ==
    <<"p", "o", "s", "t", "g", "r", "e", "s", ":", "/", "/", "l", "i", "t", "e",
      "r", "a", "l">>
TemplateA ==
    <<"$", "{", "d", "b", ".", "D", "A", "T", "A", "B", "A", "S", "E", "_", "U",
      "R", "L", "}">>
TemplateB == <<"$", "{", "d", "b", "2", ".", "U", "R", "L", "}">>
One == <<"1">>
Two == <<"2">>
OkBody == <<"{", "\"", "a", "p", "p", "\"", ":", "{", "}", "}">>
ErrorBody ==
    <<"{", "\"", "m", "e", "s", "s", "a", "g", "e", "\"", ":", "\"", "E", "r",
      "r", "o", "r", "\"", "}">>

\* the partial function that keeps the keys of f bound to something else than None
Present(f) == [k \in {n \in DOMAIN f : f[n] # None} |-> f[k]]

\* The token varies on the side of the flag and the application id on the side
\* of the environment; main() resolves both with the same expression.
FlagChoices == [token : {None, <<>>, Tok}, app_id : {None, <<>>}]
Argvs == {Present(f) : f \in FlagChoices}

EnvironChoices ==
    [DO_TOKEN : {None, Tok}, DO_APP_ID : {None, <<>>, AppId},
     JWT_SECRET : {None, <<>>, EnvSecret},
     AI_AGENT_LINGUIST_ID : {None, Agent1},
     AI_AGENT_PHILOLOGIST_ID : {None, Agent2}]
Environs == {Present(f) : f \in EnvironChoices}

\* env entries a fetched service may hold
EnvEntries ==
    { [key |-> "DATABASE_URL", value |-> Literal, scope |-> "RUN_TIME"],
      [key |-> "DATABASE_URL", scope |-> "RUN_TIME"],
      [key |-> "DATABASE_URL", value |-> TemplateA, scope |-> "RUN_TIME"],
      [key |-> "DATABASE_URL", value |-> TemplateB, scope |-> "RUN_TIME"],
      [key |-> "FOO", value |-> One, scope |-> "RUN_TIME"],
      [key |-> "FOO", value |-> Two, scope |-> "RUN_TIME"],
      [key |-> "JWT_SECRET", value |-> OldSecret, scope |-> "RUN_TIME",
       type |-> "SECRET"] }

ServiceNames == {TargetName, "api"}

EnvLists(n) == UNION {[1..k -> EnvEntries] : k \in 0..n}

ServiceSize(service) == 1 + Len(Get(service, "envs", <<>>))

\* services of size at most n, with or without an envs field
ServicesUpTo(n) ==
    {[name |-> nm] : nm \in ServiceNames}
    \cup {[name |-> nm, envs |-> l] : nm \in ServiceNames, l \in EnvLists(n - 1)}

\* service lists of total size at most n
RECURSIVE ServiceLists(_)
ServiceLists(n) ==
    IF n < 1 THEN {<<>>}
    ELSE {<<>>} \cup
         UNION { {<<svc>> \o rest : rest \in ServiceLists(n - ServiceSize(svc))} :
                 svc \in ServicesUpTo(n) }

FetchedSpecs ==
    {[name |-> "synoptic"]}
    \cup {[name |-> "synoptic", services |-> l] : l \in ServiceLists(MaxDocSize)}

\* stdout of the GET, as the JSON value it denotes; NotJson is text json.loads rejects
NotJson == [not_json |-> TRUE]
ErrorDocument == [id |-> "unauthorized"]
GetStdouts == {NotJson, ErrorDocument} \cup {[app |-> [spec |-> s]] : s \in FetchedSpecs}

\* exit statuses of a curl that failed
CurlFailures == {7}

\* a failed curl leaves stdout empty, or fails after the body was written
PartialDocument ==
    [app |-> [spec |-> [name |-> "synoptic",
                        services |-> <<[name |-> TargetName, envs |-> <<>>]>>]]]

GetResults ==
    {[returncode |-> 0, stdout |-> o] : o \in GetStdouts}
    \cup [returncode : CurlFailures, stdout : {NotJson, PartialDocument}]

PutResults ==
    [returncode : {0}, stdout : {OkBody, ErrorBody}]
    \cup [returncode : CurlFailures, stdout : {<<>>, ErrorBody}]

NoResult == [returncode |-> 0, stdout |-> NotJson]
NoSpec == [name |-> "none"]

(***************************************************************************)
(* main().                                                                 *)
(***************************************************************************)
Init ==
    /\ pc = "parse_args"
    /\ argv \in Argvs
    /\ environ \in Environs
    /\ args = [token |-> None, app_id |-> None]
    /\ result = NoResult
    /\ spec = NoSpec
    /\ apply_result = [returncode |-> 0, stdout |-> <<>>]
    /\ put_data = [spec |-> NoSpec]
    /\ calls = <<>>
    /\ exit_code = 0
    /\ exception = "none"
    /\ banner = FALSE

\* sys.exit(code), or an uncaught exception (exit status 1)
Exit(code, exc) ==
    /\ pc' = "done"
    /\ exit_code' = code
    /\ exception' = exc

\* lines 23-31: parse the flags; exit 1 when a credential is missing
ParsedArgs(av, env) ==
    [token  |-> Get(av, "token", Get(env, "DO_TOKEN", None)),
     app_id |-> Get(av, "app_id", Get(env, "DO_APP_ID", None))]

\* variant: `and` in place of `or`
MissingBoth(a) == ~Truthy(a.token) /\ ~Truthy(a.app_id)

\* not args.token or not args.app_id
MissingCredentials(a) == ~Truthy(a.token) \/ ~Truthy(a.app_id)

ParseArgs ==
    /\ pc = "parse_args"
    /\ args' = ParsedArgs(argv, environ)
    /\ IF MissingCredentials(args')
       THEN Exit(1, "none")
       ELSE pc' = "fetch" /\ UNCHANGED <<exit_code, exception>>
    /\ UNCHANGED <<argv, environ, result, spec, apply_result, put_data, calls, banner>>

\* what lines 46-47 raise on the GET's stdout, or "none"
LoadError(stdout) ==
    IF stdout = NotJson THEN "JSONDecodeError"
    ELSE IF "app" \notin DOMAIN stdout THEN "KeyError"
    ELSE IF "spec" \notin DOMAIN stdout.app THEN "KeyError"
    ELSE "none"

\* variant: the status of the GET is not checked
GetFailedNever(r) == FALSE

\* result.returncode != 0
GetFailed(r) == r.returncode # 0

\* lines 33-47: the GET, the status check, json.loads and data['app']['spec']
Fetch ==
    /\ pc = "fetch"
    /\ \E r \in GetResults :
        /\ result' = r
        /\ calls' = Append(calls, "GET")
        /\ IF GetFailed(r)
           THEN Exit(1, "none") /\ UNCHANGED spec
           ELSE IF LoadError(r.stdout) # "none"
                THEN Exit(1, LoadError(r.stdout)) /\ UNCHANGED spec
                ELSE /\ spec' = r.stdout.app.spec
                     /\ pc' = "transform"
                     /\ UNCHANGED <<exit_code, exception>>
    /\ UNCHANGED <<argv, environ, args, apply_result, put_data, banner>>

\* lines 49-80: the loop over the services
Transform ==
    /\ pc = "transform"
    /\ spec' = TransformSpec(spec, environ)
    /\ pc' = "push"
    /\ UNCHANGED <<argv, environ, args, result, apply_result, put_data, calls,
                   exit_code, exception, banner>>

\* "error" in apply_result.stdout.lower()
ReportsError(stdout) == Contains(ErrorWord, Lower(stdout))

\* lines 82-96: the PUT, the check of its body, the banner
Push ==
    /\ pc = "push"
    /\ \E r \in PutResults :
        /\ apply_result' = r
        /\ put_data' = [spec |-> spec]
        /\ calls' = Append(calls, "PUT")
        /\ IF ReportsError(r.stdout)
           THEN Exit(1, "none") /\ UNCHANGED banner
           ELSE Exit(0, "none") /\ banner' = TRUE
    /\ UNCHANGED <<argv, environ, args, result, spec>>

Next == ParseArgs \/ Fetch \/ Transform \/ Push

Spec == Init /\ [][Next]_vars

(***************************************************************************)
(* Vocabulary of the properties.  It is written from the wording of the    *)
(* specification and does not use the operators of the transformer.        *)
(***************************************************************************)
Range(seq) == {seq[i] : i \in DOMAIN seq}

\* the GET returned status 0 and its body carries app.spec
GetDelivered ==
    /\ calls # <<>>
    /\ result.returncode = 0
    /\ "app" \in DOMAIN result.stdout
    /\ "spec" \in DOMAIN result.stdout.app

\* the transformer has run and main() is about to push its result (the rest
\* of the run leaves spec, result and environ as they are)
Transformed == pc = "push"

Fetched == result.stdout.app.spec
FetchedServices == IF "services" \in DOMAIN Fetched THEN Fetched.services ELSE <<>>
Services == IF "services" \in DOMAIN spec THEN spec.services ELSE <<>>

EnvsOf(service) == IF "envs" \in DOMAIN service THEN service.envs ELSE <<>>
Keys(envs) == {envs[j].key : j \in DOMAIN envs}
Named(service) == service.name = "synoptic-web"
TargetIndexes == {i \in DOMAIN FetchedServices : Named(FetchedServices[i])}

Templated(e) ==
    /\ "value" \in DOMAIN e
    /\ \E j \in 1..(Len(e.value) - 1) : e.value[j] = "$" /\ e.value[j + 1] = "{"
LiteralDatabaseUrl(e) == e.key = "DATABASE_URL" /\ ~Templated(e)
TemplatedDatabaseUrl(e) == e.key = "DATABASE_URL" /\ Templated(e)

\* the positions of envs that hold key k and are no literal DATABASE_URL
Holders(envs, k) ==
    {j \in DOMAIN envs : envs[j].key = k /\ ~LiteralDatabaseUrl(envs[j])}
First(positions) == CHOOSE j \in positions : \A k \in positions : j <= k

\* a is b with some entries left out
RECURSIVE IsSubsequence(_, _)
IsSubsequence(a, b) ==
    IF a = <<>> THEN TRUE
    ELSE IF b = <<>> THEN FALSE
    ELSE IF Head(a) = Head(b) THEN IsSubsequence(Tail(a), Tail(b))
    ELSE IsSubsequence(a, Tail(b))

Candidates == NewEnvs(environ)
NonEmptyValue(c) == c.value # <<>>
WithKey(k, envs) == LET Has(e) == e.key = k IN SelectSeq(envs, Has)

(***************************************************************************)
(* C1.  After the transformer has run, in every service named              *)
(* 'synoptic-web' every key occurs at most once in the env list and no     *)
(* entry has key DATABASE_URL with a value that lacks '${'.                *)
(***************************************************************************)
UniqueKeysNoLiteralDatabaseUrl ==
    Transformed =>
        \A i \in TargetIndexes :
            LET envs == EnvsOf(Services[i])
            IN  /\ "envs" \in DOMAIN Services[i]
                /\ \A j, k \in DOMAIN envs : envs[j].key = envs[k].key => j = k
                /\ \A j \in DOMAIN envs : ~LiteralDatabaseUrl(envs[j])

\* a target fetched with a repeated key and a literal DATABASE_URL was transformed
RepeatedAndLiteralTransformed ==
    /\ Transformed
    /\ \E i \in TargetIndexes :
        LET envs == EnvsOf(FetchedServices[i])
        IN  /\ \E j, k \in DOMAIN envs : j # k /\ envs[j].key = envs[k].key
            /\ \E j \in DOMAIN envs : LiteralDatabaseUrl(envs[j])

(***************************************************************************)
(* C2.  Every transport failure (non-zero status of the GET or of the PUT) *)
(* and every PUT body containing 'error' in any case ends the run with     *)
(* exit code 1, never with exit code 0 and the success banner.             *)
(***************************************************************************)
GetTransportFailed == calls # <<>> /\ result.returncode # 0
PutTransportFailed == "PUT" \in Range(calls) /\ apply_result.returncode # 0
PutBodyHasError ==
    /\ "PUT" \in Range(calls)
    /\ \E j \in 1..(Len(apply_result.stdout) - 4) :
           Lower(SubSeq(apply_result.stdout, j, j + 4)) = <<"e", "r", "r", "o", "r">>

EveryFailureExitsOne ==
    (pc = "done" /\ (GetTransportFailed \/ PutTransportFailed \/ PutBodyHasError))
        => (exit_code = 1 /\ ~banner)

(***************************************************************************)
(* C3.  Idempotence: applying the transformer to its own output, with the  *)
(* same process environment, yields the same env lists; the second         *)
(* application appends no candidate and removes no entry.                  *)
(***************************************************************************)
TransformerIdempotent ==
    Transformed =>
        /\ TransformSpec(spec, environ) = spec
        /\ \A i \in TargetIndexes :
            LET envs == EnvsOf(Services[i])
            IN  /\ AppendLoop(envs, NewEnvs(environ), ExistingKeys(envs), 1) = envs
                /\ Dedupe(envs) = envs

\* the first application removed two hardcoded entries of a target
TwoLiteralsTransformed ==
    /\ Transformed
    /\ \E i \in TargetIndexes :
        LET envs == EnvsOf(FetchedServices[i])
        IN  \E j, k \in DOMAIN envs :
                j < k /\ LiteralDatabaseUrl(envs[j]) /\ LiteralDatabaseUrl(envs[k])

(***************************************************************************)
(* C4.  A specification without a service named 'synoptic-web' is left     *)
(* unchanged by the transformer, and in any specification every service    *)
(* with another name is left unchanged.                                    *)
(***************************************************************************)
OtherServicesUnchanged ==
    Transformed =>
        /\ TargetIndexes = {} => spec = Fetched
        /\ DOMAIN Services = DOMAIN FetchedServices
        /\ \A i \in DOMAIN FetchedServices :
               ~Named(FetchedServices[i]) => Services[i] = FetchedServices[i]

\* a specification without target, holding a service with a repeated key, was transformed
NoTargetTransformed ==
    /\ Transformed
    /\ TargetIndexes = {}
    /\ \E i \in DOMAIN FetchedServices :
        LET envs == EnvsOf(FetchedServices[i])
        IN  \E j, k \in DOMAIN envs : j # k /\ envs[j].key = envs[k].key

(***************************************************************************)
(* C5.  When neither the flag nor the environment variable gives a         *)
(* non-empty token, or neither gives a non-empty application id, the run   *)
(* exits with code 1 and issues neither the GET nor the PUT.               *)
(***************************************************************************)
NonEmptyIn(d, k) == k \in DOMAIN d /\ d[k] # <<>>
TokenGiven == NonEmptyIn(argv, "token") \/ NonEmptyIn(environ, "DO_TOKEN")
AppIdGiven == NonEmptyIn(argv, "app_id") \/ NonEmptyIn(environ, "DO_APP_ID")

MissingCredentialsExitBeforeCalls ==
    (~TokenGiven \/ ~AppIdGiven) =>
        /\ calls = <<>>
        /\ pc \in {"parse_args", "done"}
        /\ pc = "done" => exit_code = 1 /\ ~banner

\* a run with a token and without application id has ended
TokenOnlyRunEnded == pc = "done" /\ TokenGiven /\ ~AppIdGiven

(***************************************************************************)
(* C6.  A candidate is appended to the target's env list if and only if    *)
(* its resolved value is non-empty and its key is not among the keys       *)
(* fetched; for an empty fetched list the result is exactly the candidates *)
(* with a non-empty value, in candidate order.                             *)
(***************************************************************************)
CandidateAddedIffNonEmptyAndNew ==
    Transformed =>
        \A i \in TargetIndexes :
            LET before == EnvsOf(FetchedServices[i])
                after  == EnvsOf(Services[i])
            IN  /\ \A c \in DOMAIN Candidates :
                       (Candidates[c] \in Range(after))
                           <=> (/\ NonEmptyValue(Candidates[c])
                                /\ Candidates[c].key \notin Keys(before))
                /\ before = <<>> =>
                       /\ after = SelectSeq(Candidates, NonEmptyValue)
                       /\ Len(after)
                              = Cardinality({c \in DOMAIN Candidates :
                                                NonEmptyValue(Candidates[c])})

\* a target with an empty env list was transformed with an empty AI agent id
EmptyListTransformed ==
    /\ Transformed
    /\ \E i \in TargetIndexes : EnvsOf(FetchedServices[i]) = <<>>
    /\ \E c \in DOMAIN Candidates : ~NonEmptyValue(Candidates[c])
    /\ "JWT_SECRET" \in DOMAIN environ

(***************************************************************************)
(* C7.  As claimed: every fetched DATABASE_URL entry of the target without *)
(* '${' in its value is removed and every fetched DATABASE_URL entry with  *)
(* '${' in its value is retained.                                          *)
(***************************************************************************)
EveryTemplatedDatabaseUrlRetained ==
    Transformed =>
        \A i \in TargetIndexes :
            LET before == EnvsOf(FetchedServices[i])
                after  == EnvsOf(Services[i])
            IN  \A j \in DOMAIN before :
                    /\ LiteralDatabaseUrl(before[j]) => before[j] \notin Range(after)
                    /\ TemplatedDatabaseUrl(before[j]) => before[j] \in Range(after)

(***************************************************************************)
(* C7, amended.  Every fetched DATABASE_URL entry of the target without    *)
(* '${' in its value is removed; the first fetched DATABASE_URL entry with *)
(* '${' in its value is retained, also when a literal one precedes it, and *)
(* it is the only DATABASE_URL entry of the result.                        *)
(***************************************************************************)
FirstTemplatedDatabaseUrlRetained ==
    Transformed =>
        \A i \in TargetIndexes :
            LET before == EnvsOf(FetchedServices[i])
                after  == EnvsOf(Services[i])
                templated == {j \in DOMAIN before : TemplatedDatabaseUrl(before[j])}
            IN  /\ \A j \in DOMAIN before :
                       LiteralDatabaseUrl(before[j]) => before[j] \notin Range(after)
                /\ WithKey("DATABASE_URL", after)
                       = IF templated = {} THEN <<>> ELSE <<before[First(templated)]>>

\* a target with a literal DATABASE_URL before a templated one was transformed
LiteralBeforeTemplatedTransformed ==
    /\ Transformed
    /\ \E i \in TargetIndexes :
        LET envs == EnvsOf(FetchedServices[i])
        IN  \E j, k \in DOMAIN envs :
                j < k /\ LiteralDatabaseUrl(envs[j]) /\ TemplatedDatabaseUrl(envs[k])

(***************************************************************************)
(* C8.  When two or more entries of the target that are no literal         *)
(* DATABASE_URL share a key, exactly one entry with that key survives: the *)
(* first of them in the fetched order, with its fetched value.             *)
(***************************************************************************)
FirstOfRepeatedKeySurvives ==
    Transformed =>
        \A i \in TargetIndexes :
            LET before == EnvsOf(FetchedServices[i])
                after  == EnvsOf(Services[i])
            IN  \A k \in Keys(before) :
                    Cardinality(Holders(before, k)) >= 2 =>
                        WithKey(k, after) = <<before[First(Holders(before, k))]>>

\* a target with two entries of one key and different values was transformed
RepeatedKeyTransformed ==
    /\ Transformed
    /\ \E i \in TargetIndexes :
        LET envs == EnvsOf(FetchedServices[i])
        IN  \E j, k \in DOMAIN envs :
                /\ j < k
                /\ envs[j].key = "FOO" /\ envs[k].key = "FOO"
                /\ envs[j] # envs[k]

(***************************************************************************)
(* C9.  As claimed: the calls are GET then PUT, at most one of each; the   *)
(* PUT is issued only after a GET with status 0 and the transformer; and   *)
(* whenever the GET returned status 0 the run issues the PUT exactly once, *)
(* with the fetched specification when no service has the target name.     *)
(***************************************************************************)
CallsInOrder ==
    /\ calls \in {<<>>, <<"GET">>, <<"GET", "PUT">>}
    /\ "PUT" \in Range(calls) =>
           /\ result.returncode = 0
           /\ GetDelivered
           /\ put_data = [spec |-> TransformSpec(Fetched, environ)]
           /\ put_data = [spec |-> spec]

PutAfterEveryStatusZeroGet ==
    /\ CallsInOrder
    /\ (pc = "done" /\ calls # <<>> /\ result.returncode = 0) =>
           /\ calls = <<"GET", "PUT">>
           /\ TargetIndexes = {} => put_data = [spec |-> Fetched]

(***************************************************************************)
(* C9, amended.  The calls are GET then PUT, at most one of each; the PUT  *)
(* is issued only after a GET with status 0 and the transformer; and       *)
(* whenever the GET returned status 0 with a body that carries app.spec    *)
(* the run issues the PUT exactly once, with the fetched specification     *)
(* when no service has the target name.                                    *)
(***************************************************************************)
PutAfterEveryDeliveredGet ==
    /\ CallsInOrder
    /\ (pc = "done" /\ GetDelivered) =>
           /\ calls = <<"GET", "PUT">>
           /\ TargetIndexes = {} => put_data = [spec |-> Fetched]

\* a run that fetched a specification without target has ended after its PUT
NoTargetRunEnded ==
    /\ pc = "done"
    /\ GetDelivered
    /\ "services" \in DOMAIN Fetched
    /\ Fetched.services # <<>>
    /\ TargetIndexes = {}
    /\ calls = <<"GET", "PUT">>

(***************************************************************************)
(* C10.  The resulting env list of the target is a subsequence of the      *)
(* fetched list followed by appended candidates in candidate order; an     *)
(* entry whose key was fetched keeps a fetched value, also when the key is *)
(* a candidate's key and the candidate's value differs.                    *)
(***************************************************************************)
FetchedEntriesKeptInOrder ==
    Transformed =>
        \A i \in TargetIndexes :
            LET before == EnvsOf(FetchedServices[i])
                after  == EnvsOf(Services[i])
            IN  /\ \E m \in 0..Len(after) :
                       /\ IsSubsequence(SubSeq(after, 1, m), before)
                       /\ IsSubsequence(SubSeq(after, m + 1, Len(after)), Candidates)
                       /\ \A j \in (m + 1)..Len(after) : after[j].key \notin Keys(before)
                /\ \A j \in DOMAIN after :
                       after[j].key \in Keys(before) => after[j] \in Range(before)

\* a target holding JWT_SECRET was transformed while JWT_SECRET is set to another value
ExistingSecretTransformed ==
    /\ Transformed
    /\ "JWT_SECRET" \in DOMAIN environ
    /\ environ["JWT_SECRET"] # <<>>
    /\ \E i \in TargetIndexes :
        LET envs == EnvsOf(FetchedServices[i])
        IN  \E j \in DOMAIN envs :
                envs[j].key = "JWT_SECRET" /\ envs[j].value # environ["JWT_SECRET"]

====
